---- MODULE Spec2Model ----
(***************************************************************************)
(* Order lifecycle tracker of examples/13_order_lifecycle_tracker_with_    *)
(* stream.py: four module-level globals updated by the UserHubStream       *)
(* order callback (running on the stream's own thread) and polled by       *)
(* run_order_lifecycle_example (the main thread).                          *)
(*                                                                         *)
(* The callback is one atomic action; the main thread is cut at every read *)
(* of a global, so that every interleaving of event delivery with the      *)
(* session's checks and reports is a behaviour of the model.               *)
(* Time passes in time.sleep only: a polling loop's deadline passes after  *)
(* MaxPolls of its sleeps (20 sleeps of 1 s at line 153, 30 sleeps of      *)
(* 0.5 s at line 171 in the source).                                       *)
(***************************************************************************)
EXTENDS Integers, Sequences, FiniteSets, TLC

\* ---------------------------------------------------------------- bounds
\* Callbacks (order updates, state changes, errors) the stream delivers in a run.
MaxCallbacks == 3
\* Sleeps a polling loop takes before its deadline has passed.
MaxPolls == 2

\* ---------------------------------------------------------------- values
\* Python's None for an order id (order_data.get("id") of an event without one,
\* and the initial tracked_order_id); real order ids are positive.
NoId == 0
\* The id place_limit_order returns for the order this run places.
PlacedId == 1
\* The id of some other order of the same account.
OtherId == 2
\* Python's None for a status code / a cancel result not yet assigned.
None == "None"

ORDER_STATUS_WORKING == "Working"
ORDER_STATUS_FILLED == "Filled"
ORDER_STATUS_CANCELLED == "Cancelled"
ORDER_STATUS_REJECTED == "Rejected"
\* Another status of ORDER_STATUS_TO_STRING_MAP, and a code that is not in it.
ORDER_STATUS_PARTIALLY_FILLED == "PartiallyFilled"
UNKNOWN_STATUS == "Unknown"

\* The list tested at line 62.
TerminalStatuses == {ORDER_STATUS_FILLED, ORDER_STATUS_CANCELLED, ORDER_STATUS_REJECTED}
\* The values order_data.get("status") takes (line 51).
StatusCodes == {ORDER_STATUS_WORKING, ORDER_STATUS_PARTIALLY_FILLED, ORDER_STATUS_FILLED,
                ORDER_STATUS_CANCELLED, ORDER_STATUS_REJECTED, UNKNOWN_STATUS}

\* The order_data dictionaries the stream can deliver: the keys the callback reads.
OrderEvents == [id : {NoId, PlacedId, OtherId}, status : StatusCodes]
\* The states on_state_change_callback is called with.
ConnectionStates == {"Reconnecting", "Failed"}
\* The errors on_error_callback is called with.
StreamErrors == {"StreamError"}
\* The exceptions the except clauses of lines 187-202 name (KeyboardInterrupt apart).
SetupErrors == {"ConfigurationError", "AuthenticationError", "APIError", "Exception"}

VARIABLES
    \* the module globals, lines 38-41
    tracked_order_id, tracked_order_status_from_stream,
    tracked_order_details_from_stream, is_order_terminal,
    \* run_order_lifecycle_example: position (the line about to run) and locals
    pc, user_stream, placed_order_id, cancel_success, polls,
    \* the external collaborators: the stream delivers while running; calls counted
    stream_running, start_calls, stop_calls, place_calls, cancel_calls,
    \* what the session logged about the order: which report, and the status in it
    outcome, reported_status, raised,
    \* the last callback the stream made (<<kind, argument>>); for an order update,
    \* whether the callback ignored it, applied it, or applied it as a repetition of
    \* the update applied just before; the number of callbacks made
    last_callback, last_applied, delivered,
    \* observers: the result of the check of line 155, the first terminal status
    \* applied after cancel_order returned, the state a KeyboardInterrupt found
    checked155, race_status, interrupt_snapshot

globals == <<tracked_order_id, tracked_order_status_from_stream,
             tracked_order_details_from_stream, is_order_terminal>>
session == <<pc, user_stream, placed_order_id, cancel_success, polls>>
collaborators == <<stream_running, start_calls, stop_calls, place_calls, cancel_calls>>
reports == <<outcome, reported_status, raised>>
callbacks == <<last_callback, last_applied, delivered>>
observers == <<checked155, race_status, interrupt_snapshot>>
vars == <<globals, session, collaborators, reports, callbacks, observers>>

\* Lines of the try block at which a KeyboardInterrupt can be raised in the main thread.
TryPcs == {"l101", "l119", "l123", "l127", "l134", "l139", "l147", "l148", "l153",
           "l155", "l157", "l158", "l162", "l163", "l163b", "l166", "l168", "l171",
           "l173", "l178", "l179", "l181"}
\* The positions after cancel_order was called at line 157 and before the report.
CancellingPcs == {"l158", "l162", "l163", "l163b", "l166", "l168", "l171", "l173",
                  "l178", "l179"}

Init ==
    /\ tracked_order_id = NoId
    /\ tracked_order_status_from_stream = None
    /\ tracked_order_details_from_stream = <<>>
    /\ is_order_terminal = FALSE
    /\ pc = "l101"
    /\ user_stream = None
    /\ placed_order_id = NoId
    /\ cancel_success = None
    /\ polls = 0
    /\ stream_running = FALSE
    /\ start_calls = 0
    /\ stop_calls = 0
    /\ place_calls = 0
    /\ cancel_calls = 0
    /\ outcome = None
    /\ reported_status = None
    /\ raised = None
    /\ last_callback = <<>>
    /\ delivered = 0
    /\ last_applied = None
    /\ checked155 = None
    /\ race_status = None
    /\ interrupt_snapshot = <<>>

\* ------------------------------------------------------ stream callbacks

\* handle_tracked_order_update with the comparison of line 48 left out: every
\* update is recorded, whatever order it is about.
handle_update_of_any_order(order_data) ==
    /\ tracked_order_status_from_stream' = order_data.status
    /\ tracked_order_details_from_stream' = <<order_data>>
    /\ is_order_terminal' = IF order_data.status \in TerminalStatuses
                            THEN TRUE
                            ELSE is_order_terminal
    /\ UNCHANGED tracked_order_id

\* handle_tracked_order_update dropping the payload of an update that arrives when
\* the flag is already set.
handle_update_dropping_replayed_payload(order_data) ==
    IF order_data.id = tracked_order_id
    THEN /\ tracked_order_status_from_stream' = order_data.status
         /\ tracked_order_details_from_stream' =
              IF is_order_terminal THEN <<>> ELSE <<order_data>>
         /\ is_order_terminal' = IF order_data.status \in TerminalStatuses
                                 THEN TRUE
                                 ELSE is_order_terminal
         /\ UNCHANGED tracked_order_id
    ELSE UNCHANGED globals

\* handle_tracked_order_update, lines 43-67: the effect on the four globals.
handle_tracked_order_update(order_data) ==
    LET order_id_from_event == order_data.id
        status_code == order_data.status
    IN  IF order_id_from_event = tracked_order_id
        THEN /\ tracked_order_status_from_stream' = status_code
             /\ tracked_order_details_from_stream' = <<order_data>>
             /\ is_order_terminal' = IF status_code \in TerminalStatuses
                                     THEN TRUE
                                     ELSE is_order_terminal
             /\ UNCHANGED tracked_order_id
        ELSE UNCHANGED globals

\* handle_user_stream_state failing the outstanding waits when the stream fails.
handle_user_stream_state_failing_waits(state) ==
    /\ is_order_terminal' = IF state = "Failed" THEN TRUE ELSE is_order_terminal
    /\ UNCHANGED <<tracked_order_id, tracked_order_status_from_stream,
                   tracked_order_details_from_stream>>

\* handle_user_stream_state, lines 70-71: logs the state, touches no global.
handle_user_stream_state(state) ==
    UNCHANGED globals

\* handle_user_stream_error, lines 73-74: logs the error, touches no global.
handle_user_stream_error(error) ==
    UNCHANGED globals

\* The window in which a terminal event races the cancel request: cancel_order
\* has returned, and (when it succeeded) the confirmation wait has not reported.
InRaceWindow ==
    /\ cancel_success # None
    /\ interrupt_snapshot = <<>>
    /\ (cancel_success = "Success" => outcome = None)

\* The stream reports the order this run places only once the command channel has
\* accepted it (place_limit_order has its id, line 127); other orders' updates and
\* updates without an id can come at any time.
Deliverable(order_data) ==
    order_data.id = PlacedId => placed_order_id = PlacedId

\* The stream thread delivers one order update (on_order_update, line 114).
DeliverOrderUpdate ==
    /\ stream_running
    /\ delivered < MaxCallbacks
    /\ \E order_data \in OrderEvents :
        /\ Deliverable(order_data)
        /\ handle_tracked_order_update(order_data)
        /\ last_callback' = <<"order", order_data>>
        /\ last_applied' =
             IF order_data.id # tracked_order_id THEN "Ignored"
             ELSE IF /\ last_applied \in {"Applied", "Duplicate"}
                     /\ last_callback = <<"order", order_data>>
                  THEN "Duplicate"
                  ELSE "Applied"
        /\ race_status' =
             IF /\ race_status = None
                /\ InRaceWindow
                /\ order_data.id = tracked_order_id
                /\ order_data.status \in TerminalStatuses
             THEN order_data.status
             ELSE race_status
    /\ delivered' = delivered + 1
    /\ UNCHANGED <<session, collaborators, reports, checked155,
                   interrupt_snapshot>>

\* The stream thread reports a connection-state change (line 116).
DeliverStateChange ==
    /\ stream_running
    /\ delivered < MaxCallbacks
    /\ \E state \in ConnectionStates :
        /\ handle_user_stream_state(state)
        /\ last_callback' = <<"state", state>>
    /\ last_applied' = None
    /\ delivered' = delivered + 1
    /\ UNCHANGED <<session, collaborators, reports, observers>>

\* The stream thread reports an error (line 117).
DeliverError ==
    /\ stream_running
    /\ delivered < MaxCallbacks
    /\ \E error \in StreamErrors :
        /\ handle_user_stream_error(error)
        /\ last_callback' = <<"error", error>>
    /\ last_applied' = None
    /\ delivered' = delivered + 1
    /\ UNCHANGED <<session, collaborators, reports, observers>>

\* --------------------------------------- run_order_lifecycle_example

\* Lines 100-118: authenticate, build APIClient, OrderPlacer and UserHubStream;
\* any of them may raise, and then no stream object exists (line 85).
Authenticate ==
    /\ pc = "l101"
    /\ \/ /\ user_stream' = "UserHubStream"
          /\ pc' = "l119"
          /\ UNCHANGED raised
       \/ /\ \E e \in SetupErrors : raised' = e
          /\ pc' = "l204"
          /\ UNCHANGED user_stream
    /\ UNCHANGED <<globals, placed_order_id, cancel_success, polls, collaborators,
                   outcome, reported_status, callbacks, observers>>

\* Lines 119-122 without the return of line 121: a failed start is logged and the
\* run goes on.
StartStreamIgnoringResult ==
    /\ pc = "l119"
    /\ start_calls' = start_calls + 1
    /\ \E started \in BOOLEAN :
        /\ stream_running' = started
        /\ outcome' = IF started THEN outcome ELSE "StartFailed"
    /\ pc' = "l123"
    /\ UNCHANGED <<globals, user_stream, placed_order_id, cancel_success, polls,
                   stop_calls, place_calls, cancel_calls, reported_status, raised,
                   callbacks, observers>>

\* Lines 119-122: user_stream.start(); on False log and return (through finally).
StartStream ==
    /\ pc = "l119"
    /\ start_calls' = start_calls + 1
    /\ \E started \in BOOLEAN :
        IF started
        THEN /\ stream_running' = TRUE
             /\ pc' = "l123"
             /\ UNCHANGED outcome
        ELSE /\ stream_running' = FALSE
             /\ pc' = "l204"
             /\ outcome' = "StartFailed"
    /\ UNCHANGED <<globals, user_stream, placed_order_id, cancel_success, polls,
                   stop_calls, place_calls, cancel_calls, reported_status, raised,
                   callbacks, observers>>

\* Line 123: time.sleep(2).
SleepAfterStart ==
    /\ pc = "l123"
    /\ pc' = "l127"
    /\ UNCHANGED <<globals, user_stream, placed_order_id, cancel_success, polls,
                   collaborators, reports, callbacks, observers>>

\* Lines 127-132: order_placer.place_limit_order returns the new id or None.
PlaceLimitOrder ==
    /\ pc = "l127"
    /\ place_calls' = place_calls + 1
    /\ \E id \in {NoId, PlacedId} : placed_order_id' = id
    /\ pc' = "l134"
    /\ UNCHANGED <<globals, user_stream, cancel_success, polls, stream_running,
                   start_calls, stop_calls, cancel_calls, reports, callbacks, observers>>

\* Lines 134-137: no id: log, stop the stream, return (through finally).
CheckPlaced ==
    /\ pc = "l134"
    /\ IF placed_order_id = NoId
       THEN /\ outcome' = "PlaceFailed"
            /\ stop_calls' = IF user_stream # None THEN stop_calls + 1 ELSE stop_calls
            /\ stream_running' = IF user_stream # None THEN FALSE ELSE stream_running
            /\ pc' = "l204"
       ELSE /\ pc' = "l139"
            /\ UNCHANGED <<outcome, stop_calls, stream_running>>
    /\ UNCHANGED <<globals, user_stream, placed_order_id, cancel_success, polls,
                   start_calls, place_calls, cancel_calls, reported_status, raised,
                   callbacks, observers>>

\* Lines 139-146: record the id to track; take the monitoring start time.
AssignTracked ==
    /\ pc = "l139"
    /\ tracked_order_id' = placed_order_id
    /\ polls' = 0
    /\ pc' = "l147"
    /\ UNCHANGED <<tracked_order_status_from_stream, tracked_order_details_from_stream,
                   is_order_terminal, user_stream, placed_order_id, cancel_success,
                   collaborators, reports, callbacks, observers>>

\* Line 147: the monitoring loop's condition: the monitoring duration has not passed.
MonitorCondition ==
    /\ pc = "l147"
    /\ pc' = IF polls < MaxPolls THEN "l148" ELSE "l155"
    /\ UNCHANGED <<globals, user_stream, placed_order_id, cancel_success, polls,
                   collaborators, reports, callbacks, observers>>

\* Lines 148-150: break once the flag is set.
MonitorCheck ==
    /\ pc = "l148"
    /\ pc' = IF is_order_terminal THEN "l155" ELSE "l153"
    /\ UNCHANGED <<globals, user_stream, placed_order_id, cancel_success, polls,
                   collaborators, reports, callbacks, observers>>

\* Line 153 with the start time of line 146 taken again after every sleep: the
\* monitoring duration never passes.
MonitorSleepRestartingClock ==
    /\ pc = "l153"
    /\ polls' = 0
    /\ pc' = "l147"
    /\ UNCHANGED <<globals, user_stream, placed_order_id, cancel_success,
                   collaborators, reports, callbacks, observers>>

\* Line 153: time.sleep(1).
MonitorSleep ==
    /\ pc = "l153"
    /\ polls' = polls + 1
    /\ pc' = "l147"
    /\ UNCHANGED <<globals, user_stream, placed_order_id, cancel_success,
                   collaborators, reports, callbacks, observers>>

\* Line 155 without its test: the session goes on to cancel whatever the flag says.
CheckBeforeCancelAlwaysCancels ==
    /\ pc = "l155"
    /\ pc' = "l157"
    /\ checked155' = IF is_order_terminal THEN "terminal" ELSE "active"
    /\ UNCHANGED <<globals, user_stream, placed_order_id, cancel_success, polls,
                   collaborators, reports, callbacks, race_status, interrupt_snapshot>>

\* Line 155: if not is_order_terminal, go on to cancel; else to the final log.
CheckBeforeCancel ==
    /\ pc = "l155"
    /\ IF ~is_order_terminal
       THEN /\ pc' = "l157"
            /\ checked155' = "active"
            /\ UNCHANGED outcome
       ELSE /\ pc' = "l181"
            /\ checked155' = "terminal"
            /\ outcome' = "TerminalBeforeCancel"
    /\ UNCHANGED <<globals, user_stream, placed_order_id, cancel_success, polls,
                   collaborators, reported_status, raised, callbacks, race_status,
                   interrupt_snapshot>>

\* Line 157: order_placer.cancel_order(order_id=tracked_order_id) returns a bool.
CancelOrder ==
    /\ pc = "l157"
    /\ cancel_calls' = cancel_calls + 1
    /\ \E ok \in {"Success", "Failure"} : cancel_success' = ok
    /\ pc' = "l158"
    /\ UNCHANGED <<globals, user_stream, placed_order_id, polls, stream_running,
                   start_calls, stop_calls, place_calls, reports, callbacks, observers>>

\* Lines 158-161 and 175-176: branch on the result; take the confirmation start time.
CheckCancelResult ==
    /\ pc = "l158"
    /\ pc' = IF cancel_success = "Success" THEN "l162" ELSE "l178"
    /\ polls' = 0
    /\ UNCHANGED <<globals, user_stream, placed_order_id, cancel_success,
                   collaborators, reports, callbacks, observers>>

\* Line 162: the confirmation loop's condition; when false the else clause runs.
ConfirmCondition ==
    /\ pc = "l162"
    /\ pc' = IF polls < MaxPolls THEN "l163" ELSE "l173"
    /\ UNCHANGED <<globals, user_stream, placed_order_id, cancel_success, polls,
                   collaborators, reports, callbacks, observers>>

\* Line 163, left operand: is_order_terminal.
ConfirmCheckFlag ==
    /\ pc = "l163"
    /\ pc' = IF is_order_terminal THEN "l163b" ELSE "l166"
    /\ UNCHANGED <<globals, user_stream, placed_order_id, cancel_success, polls,
                   collaborators, reports, callbacks, observers>>

\* Lines 163-165, right operand: the status is CANCELLED: confirmed, break.
ConfirmCheckStatus ==
    /\ pc = "l163b"
    /\ IF tracked_order_status_from_stream = ORDER_STATUS_CANCELLED
       THEN /\ outcome' = "ConfirmedCancelled"
            /\ reported_status' = ORDER_STATUS_CANCELLED
            /\ pc' = "l181"
       ELSE /\ pc' = "l166"
            /\ UNCHANGED <<outcome, reported_status>>
    /\ UNCHANGED <<globals, user_stream, placed_order_id, cancel_success, polls,
                   collaborators, raised, callbacks, observers>>

\* Line 166: elif is_order_terminal.
ConfirmCheckOther ==
    /\ pc = "l166"
    /\ pc' = IF is_order_terminal THEN "l168" ELSE "l171"
    /\ UNCHANGED <<globals, user_stream, placed_order_id, cancel_success, polls,
                   collaborators, reports, callbacks, observers>>

\* Lines 167-170: "became terminal with status <status now recorded>", break.
ConfirmReportOther ==
    /\ pc = "l168"
    /\ outcome' = "TerminalOther"
    /\ reported_status' = tracked_order_status_from_stream
    /\ pc' = "l181"
    /\ UNCHANGED <<globals, user_stream, placed_order_id, cancel_success, polls,
                   collaborators, raised, callbacks, observers>>

\* Line 171: time.sleep(0.5).
ConfirmSleep ==
    /\ pc = "l171"
    /\ polls' = polls + 1
    /\ pc' = "l162"
    /\ UNCHANGED <<globals, user_stream, placed_order_id, cancel_success,
                   collaborators, reports, callbacks, observers>>

\* Lines 172-174: the loop's else: "Timed out ... Last known stream status: <status
\* now recorded>".
ConfirmTimeout ==
    /\ pc = "l173"
    /\ outcome' = "TimedOut"
    /\ reported_status' = tracked_order_status_from_stream
    /\ pc' = "l181"
    /\ UNCHANGED <<globals, user_stream, placed_order_id, cancel_success, polls,
                   collaborators, raised, callbacks, observers>>

\* Lines 176-178: the cancel request failed; look at the flag.
CancelFailedCheck ==
    /\ pc = "l178"
    /\ IF is_order_terminal
       THEN /\ pc' = "l179"
            /\ UNCHANGED outcome
       ELSE /\ pc' = "l181"
            /\ outcome' = "CancelFailed"
    /\ UNCHANGED <<globals, user_stream, placed_order_id, cancel_success, polls,
                   collaborators, reported_status, raised, callbacks, observers>>

\* Line 179: "Order was already terminal with status: <status now recorded>".
CancelFailedReport ==
    /\ pc = "l179"
    /\ outcome' = "CancelFailedTerminal"
    /\ reported_status' = tracked_order_status_from_stream
    /\ pc' = "l181"
    /\ UNCHANGED <<globals, user_stream, placed_order_id, cancel_success, polls,
                   collaborators, raised, callbacks, observers>>

\* Lines 181-185: log the last payload; the try block ends.
FinalDetails ==
    /\ pc = "l181"
    /\ pc' = "l204"
    /\ UNCHANGED <<globals, user_stream, placed_order_id, cancel_success, polls,
                   collaborators, reports, callbacks, observers>>

\* Line 193: a KeyboardInterrupt is raised in the main thread inside the try block.
KeyboardInterrupt ==
    /\ pc \in TryPcs
    /\ interrupt_snapshot = <<>>
    /\ interrupt_snapshot' = <<[placed |-> placed_order_id # NoId,
                                terminal |-> is_order_terminal,
                                cancels |-> cancel_calls]>>
    /\ pc' = "l195"
    /\ UNCHANGED <<globals, user_stream, placed_order_id, cancel_success, polls,
                   collaborators, reports, callbacks, checked155, race_status>>

\* Line 195: tracked_order_id and not is_order_terminal and order_placer
\* (order_placer is set whenever tracked_order_id is).
InterruptCheck ==
    /\ pc = "l195"
    /\ pc' = IF tracked_order_id # NoId /\ ~is_order_terminal THEN "l197" ELSE "l204"
    /\ UNCHANGED <<globals, user_stream, placed_order_id, cancel_success, polls,
                   collaborators, reports, callbacks, observers>>

\* Lines 197-200: cancel_order(tracked_order_id); either result is only logged.
InterruptCancel ==
    /\ pc = "l197"
    /\ cancel_calls' = cancel_calls + 1
    /\ \E ok \in {"Success", "Failure"} :
        outcome' = IF ok = "Success" THEN "InterruptCancelSent" ELSE "InterruptCancelFailed"
    /\ pc' = "l204"
    /\ UNCHANGED <<globals, user_stream, placed_order_id, cancel_success, polls,
                   stream_running, start_calls, stop_calls, place_calls,
                   reported_status, raised, callbacks, observers>>

\* Lines 203-207: finally: stop the stream if the object exists; the run returns.
Finally ==
    /\ pc = "l204"
    /\ IF user_stream # None
       THEN /\ stop_calls' = stop_calls + 1
            /\ stream_running' = FALSE
       ELSE UNCHANGED <<stop_calls, stream_running>>
    /\ pc' = "done"
    /\ UNCHANGED <<globals, user_stream, placed_order_id, cancel_success, polls,
                   start_calls, place_calls, cancel_calls, reports, callbacks, observers>>

Next ==
    \/ DeliverOrderUpdate
    \/ DeliverStateChange
    \/ DeliverError
    \/ Authenticate
    \/ StartStream
    \/ SleepAfterStart
    \/ PlaceLimitOrder
    \/ CheckPlaced
    \/ AssignTracked
    \/ MonitorCondition
    \/ MonitorCheck
    \/ MonitorSleep
    \/ CheckBeforeCancel
    \/ CancelOrder
    \/ CheckCancelResult
    \/ ConfirmCondition
    \/ ConfirmCheckFlag
    \/ ConfirmCheckStatus
    \/ ConfirmCheckOther
    \/ ConfirmReportOther
    \/ ConfirmSleep
    \/ ConfirmTimeout
    \/ CancelFailedCheck
    \/ CancelFailedReport
    \/ FinalDetails
    \/ KeyboardInterrupt
    \/ InterruptCheck
    \/ InterruptCancel
    \/ Finally

Spec == Init /\ [][Next]_vars

\* The steps of the main thread. The interpreter keeps running it: the clock
\* advances, so a sleep returns, and the calls to the stream and to the order
\* placer return.
MainThread ==
    \/ Authenticate \/ StartStream \/ SleepAfterStart \/ PlaceLimitOrder
    \/ CheckPlaced \/ AssignTracked \/ MonitorCondition \/ MonitorCheck
    \/ MonitorSleep \/ CheckBeforeCancel \/ CancelOrder \/ CheckCancelResult
    \/ ConfirmCondition \/ ConfirmCheckFlag \/ ConfirmCheckStatus
    \/ ConfirmCheckOther \/ ConfirmReportOther \/ ConfirmSleep \/ ConfirmTimeout
    \/ CancelFailedCheck \/ CancelFailedReport \/ FinalDetails \/ InterruptCheck
    \/ InterruptCancel \/ Finally

\* Spec with the main thread scheduled; the stream and the caller's interrupt are
\* free to act or not.
FairSpec == Spec /\ WF_vars(MainThread)

\* ----------------------------------------------------------- properties

\* The statuses of an order that is still live.
ActiveStatuses == {ORDER_STATUS_WORKING, ORDER_STATUS_PARTIALLY_FILLED}

\* This step is the delivery of an order update to handle_tracked_order_update.
OrderUpdateStep == delivered' = delivered + 1 /\ last_callback'[1] = "order"
\* The order_data of that step.
StepEvent == last_callback'[2]
\* The session's report of the order's outcome has been made and the run is over.
RunOver == pc = "done"
NotInterrupted == interrupt_snapshot = <<>>
\* An order is tracked and the recorded status and payload are those of an update
\* for it.
RecordedForTracked ==
    /\ tracked_order_id # NoId
    /\ tracked_order_details_from_stream # <<>>
    /\ tracked_order_details_from_stream[1].id = tracked_order_id
\* An order is tracked and no update has been recorded yet.
NotYetSeen ==
    /\ tracked_order_id # NoId
    /\ tracked_order_details_from_stream = <<>>

\* C1: once the recorded status is terminal, an update for the tracked order id
\* that carries an active status or a different terminal status leaves the four
\* globals exactly as they were.
C1_TerminalStatusIsFinal ==
    [][(/\ OrderUpdateStep
        /\ RecordedForTracked
        /\ StepEvent.id = tracked_order_id
        /\ tracked_order_status_from_stream \in TerminalStatuses
        /\ StepEvent.status \in (ActiveStatuses \cup TerminalStatuses)
                                   \ {tracked_order_status_from_stream})
       => UNCHANGED globals]_vars

\* C2: an update for the tracked order id that is a valid transition (recorded
\* status not yet seen or active, new status active or terminal) makes the recorded
\* status and payload those of the update, and leaves the terminal flag true
\* exactly when the update's status is Filled, Cancelled or Rejected.
C2_ValidTransitionIsRecorded ==
    [][(/\ OrderUpdateStep
        /\ StepEvent.id = tracked_order_id
        /\ \/ NotYetSeen
           \/ RecordedForTracked /\ tracked_order_status_from_stream \in ActiveStatuses
        /\ StepEvent.status \in ActiveStatuses \cup TerminalStatuses)
       => /\ tracked_order_status_from_stream' = StepEvent.status
          /\ tracked_order_details_from_stream' = <<StepEvent>>
          /\ is_order_terminal' = (StepEvent.status \in TerminalStatuses)]_vars

\* C3: a terminal update for the tracked order that repeats, with the identical
\* payload, the update applied just before it leaves the four globals as the first
\* application left them.
C3_DuplicateTerminalIsIdempotent ==
    [][(/\ OrderUpdateStep
        /\ last_applied \in {"Applied", "Duplicate"}
        /\ last_callback[1] = "order"
        /\ StepEvent = last_callback[2]
        /\ StepEvent.id = tracked_order_id
        /\ StepEvent.status \in TerminalStatuses)
       => UNCHANGED globals]_vars

\* C3 witness: the same Filled update was applied to the placed order twice in a row.
C3_Witness ==
    /\ last_applied = "Duplicate"
    /\ last_callback = <<"order", [id |-> PlacedId, status |-> ORDER_STATUS_FILLED]>>
    /\ tracked_order_id = PlacedId
    /\ tracked_order_details_from_stream = <<last_callback[2]>>
    /\ is_order_terminal

\* C4: an update whose id differs from the tracked order id leaves the tracked id,
\* the recorded status, the recorded payload and the terminal flag unchanged.
C4_OtherOrderIsIgnored ==
    [][(OrderUpdateStep /\ StepEvent.id # tracked_order_id)
       => UNCHANGED globals]_vars

\* C4 witness: with the placed order tracked as Working, a Filled update of another
\* order was delivered and the record still says Working.
C4_Witness ==
    /\ last_applied = "Ignored"
    /\ last_callback = <<"order", [id |-> OtherId, status |-> ORDER_STATUS_FILLED]>>
    /\ tracked_order_id = PlacedId
    /\ tracked_order_status_from_stream = ORDER_STATUS_WORKING
    /\ ~is_order_terminal

\* C5: when Cancel succeeded and a Filled or Rejected update for the tracked order
\* was applied before the confirmation wait reported, the uninterrupted run ends
\* reporting that status: not Cancelled, not a timeout. Stated for the runs in
\* which that update is the only callback the stream makes, so that no other
\* update has a part in the outcome.
C5_CancelRaceReportsActualStatus ==
    (/\ RunOver
     /\ NotInterrupted
     /\ cancel_success = "Success"
     /\ race_status \in {ORDER_STATUS_FILLED, ORDER_STATUS_REJECTED}
     /\ delivered = 1)
    => /\ outcome = "TerminalOther"
       /\ reported_status = race_status

\* C6: the status the timed-out report carries is never a terminal status.
C6_TimeoutCarriesNonTerminalStatus ==
    outcome = "TimedOut" => reported_status \notin TerminalStatuses

\* C7: when Cancel failed and a terminal update for the tracked order was applied
\* after the failure returned and before the run finished, the uninterrupted run
\* ends having reported that terminal status.
C7_CancelFailureReportsTerminal ==
    (/\ RunOver
     /\ NotInterrupted
     /\ cancel_success = "Failure"
     /\ race_status # None)
    => /\ outcome = "CancelFailedTerminal"
       /\ reported_status = race_status

C9_InterruptCancelsActiveOrder ==
    (RunOver /\ ~NotInterrupted /\ interrupt_snapshot[1].placed)
    => /\ (~is_order_terminal /\ interrupt_snapshot[1].cancels = 0) => cancel_calls >= 1
       /\ interrupt_snapshot[1].terminal => cancel_calls = interrupt_snapshot[1].cancels
       /\ stop_calls >= 1

MonitorPcs == {"l147", "l148", "l153"}
ConfirmPcs == {"l162", "l163", "l163b", "l166", "l168", "l171", "l173"}

\* C10: a connection-state change or a stream error leaves the four globals, the
\* session's position and locals and its reports unchanged; and the session leaves
\* its monitoring loop or its confirmation loop (other than by an interrupt) only
\* with the terminal flag set or the loop's deadline passed.
C10_StreamStateDoesNotEndWaits ==
    [][/\ (delivered' = delivered + 1 /\ last_callback'[1] \in {"state", "error"})
          => UNCHANGED <<globals, session, reports>>
       /\ (pc \in MonitorPcs /\ pc' \notin MonitorPcs \cup {"l195"})
          => (is_order_terminal \/ polls >= MaxPolls)
       /\ (pc \in ConfirmPcs /\ pc' \notin ConfirmPcs \cup {"l195"})
          => (is_order_terminal \/ polls >= MaxPolls)]_vars

\* C10 witness: the stream reported Failed while the session waited for the cancel
\* confirmation of an order not yet terminal.
C10_Witness ==
    /\ last_callback = <<"state", "Failed">>
    /\ pc \in {"l163", "l166", "l171"}
    /\ cancel_success = "Success"
    /\ ~is_order_terminal

\* The reports with which an uninterrupted session that tracked an order ends:
\* Done (terminal seen while monitoring, after the cancel, or beside a failed
\* cancel; or the cancel request failed) and TimedOutUnconfirmed.
DoneReports == {"TerminalBeforeCancel", "ConfirmedCancelled", "TerminalOther",
                "CancelFailedTerminal", "CancelFailed"}
TimedOutReports == {"TimedOut"}

OnlyUpdateCameEarly ==
    /\ delivered = 1
    /\ last_callback[1] = "order"
    /\ last_callback[2].id = PlacedId
    /\ last_applied = "Ignored"

\* C12: an update for the placed order delivered before the id was recorded is
\* not lost: once the id is recorded the recorded status is that update's, and
\* after a terminal one the session never issues Cancel.
C12_EarlyUpdateIsNotLost ==
    (tracked_order_id = PlacedId /\ OnlyUpdateCameEarly)
    => /\ tracked_order_status_from_stream = last_callback[2].status
       /\ last_callback[2].status \in TerminalStatuses => cancel_calls = 0

\* This step delivers, for the order that is tracked, an update whose status code
\* is not in the enumeration.
UnknownStatusStep ==
    /\ OrderUpdateStep
    /\ tracked_order_id # NoId
    /\ StepEvent.id = tracked_order_id
    /\ StepEvent.status = UNKNOWN_STATUS

\* C13: an update for the tracked order with an unknown status code leaves the
\* recorded status, the payload and the terminal flag as they were.
C13_UnknownStatusChangesNothing ==
    [][UnknownStatusStep => UNCHANGED globals]_vars

\* C14: place_limit_order and cancel_order are called only after start() returned
\* True; after a failed start the run goes straight to its end with neither called.
C14_NoOrderWithoutStream ==
    /\ (place_calls > 0 \/ cancel_calls > 0)
       => (start_calls = 1 /\ user_stream # None /\ outcome # "StartFailed")
    /\ pc \in {"l127", "l134", "l139"} => stream_running
    /\ outcome = "StartFailed"
       => (place_calls = 0 /\ cancel_calls = 0 /\ pc \in {"l204", "done"})

\* C14 witness: start() returned False and the run ended: nothing placed, nothing
\* cancelled, the stream object stopped.
C14_Witness ==
    /\ RunOver
    /\ outcome = "StartFailed"
    /\ start_calls = 1
    /\ place_calls = 0
    /\ cancel_calls = 0
    /\ stop_calls = 1

\* C15: once an update for the tracked order is recorded, the terminal flag is set
\* exactly when the recorded status is Filled, Cancelled or Rejected, and the
\* status in the report "became terminal with status S" (line 167) is one of them.
C15_FlagIffTerminalStatus ==
    /\ RecordedForTracked
       => (is_order_terminal <=> tracked_order_status_from_stream \in TerminalStatuses)
    /\ outcome = "TerminalOther" => reported_status \in TerminalStatuses

\* C16: while tracked_order_id is unset, no delivered update, whatever it carries,
\* changes the recorded status, the payload or the flag.
C16_NothingRecordedWhileUntracked ==
    [][(OrderUpdateStep /\ tracked_order_id = NoId) => UNCHANGED globals]_vars

\* C17: cancel_order is called at most once in a run.
C17_AtMostOneCancel ==
    cancel_calls <= 1

\* This step is a call of cancel_order (line 157 or line 197).
CancelStep == cancel_calls' # cancel_calls

\* C18: cancel_order is never called while the flag is set: no update is applied
\* between the check of the flag (line 155, line 195) and the call (line 157,
\* line 197).
C18_NoCancelWhileTerminal ==
    [][CancelStep => ~is_order_terminal]_vars

\* C19: a run that created the stream object has, when it returns, called stop()
\* exactly once, and stop() is never called without a stream object.
C19_StopExactlyOnce ==
    /\ (RunOver /\ user_stream # None) => (stop_calls = 1 /\ ~stream_running)
    /\ stop_calls > 0 => user_stream # None

====
